---- MODULE Spec2Model ----
(***************************************************************************)
(* Model of fast-actions/setup-dotnet: the version deduplicator            *)
(* (src/utils/versioning/version-deduplicator.ts) and the run() entry      *)
(* point that calls it (src/main.ts).                                      *)
(*                                                                         *)
(* Version strings and specifier strings are modelled by integers so that  *)
(* a specifier and a version can be compared exactly as the code compares  *)
(* two strings: a concrete version is a number in 1..MaxVer, and the exact *)
(* specifier of a version is that same number (the same string).  Odd      *)
(* numbers are preview builds, ordered just below the following final one. *)
(***************************************************************************)
EXTENDS Integers, Sequences, FiniteSets, TLC

\* ---------------------------------------------------------------- bounds
MaxVer == 2        \* concrete versions are 1..MaxVer
MaxTotal == 3      \* specifiers in one request, summed over the three types
MaxInputs == 1     \* specifiers in the action inputs of one run, summed over the types
MaxKeyEntries == 2 \* versions in one generateCacheKey argument, summed over the types
MaxTime == 2       \* the clock of the api-cache runs over 0..MaxTime (ticks of six hours)
MaxFetches == 3    \* fetchWithCache calls in one run of the api-cache key runs

\* ------------------------------------------------------- value encodings
Latest == 0        \* the keyword specifier 'latest'
Wildcard == -1     \* a wildcard specifier such as '8.0.x'
Null == -2         \* null / no value
Threw == -3        \* the call raised an error

Version == 1..MaxVer
Specifier == Version \cup {Latest, Wildcard}
VersionOrNull == Version \cup {Null}
DotnetType == {"sdk", "runtime", "aspnetcore"}

\* A release of the manifest: the SDK and the runtimes shipped together.
Release == [sdk : Version, runtime : VersionOrNull, aspnetcore : VersionOrNull]

VARIABLES
    catalog,        \* the release manifest: a sequence of Release
    versions,       \* argument of deduplicateVersions (VersionSetWithPrerelease)
    resolveCalls,   \* the calls made to resolveVersion: <<specifier, type, flag>>
    deduplicated,   \* outcome of deduplicateVersions: the plan, or that it threw
    previous,       \* plan of the first application once it is passed back in
    pc,
    inputs,         \* run(): the action inputs and what readGlobalJson finds
    installed,      \* run(): the plan items found installed on the system
    tasks,          \* run(): the installDotNet tasks started, in order
    outputs,        \* run(): the action outputs set ("none" when not set)
    failed,         \* run(): the message given to core.setFailed ("" when not called)
    keyCalls,       \* cache-utils: the generateCacheKey calls made, each with its key
    env,            \* cache-utils: which tool-cache environment variables are set
    archiveStore,   \* cache-utils: the keys saved in the external cache store
    archiveCall,    \* cache-utils: the last restoreCache/saveCache/cacheExists call
    cacheEnabled,   \* api-cache: module variable cacheEnabled
    requestedUrls,  \* api-cache: module variable requestedUrls
    cacheRestored,  \* api-cache: module variable cacheRestored
    files,          \* api-cache: the file of each URL in the local cache directory
    store,          \* api-cache: the entry of the durable store (@actions/cache)
    now,            \* api-cache: Date.now(), in ticks
    remote,         \* api-cache: the JSON document each URL serves at present
    fetchCalls,     \* api-cache: the fetchWithCache call of each caller
    persisted,      \* api-cache: the last persistApiCache call
    sinceClear,     \* api-cache: what happened since clearApiCache last ran (history)
    passed,         \* api-cache keys: the URLs given to fetchWithCache in this run
    keyLog,         \* api-cache keys: the keys computed, each with its run and time
    download,       \* installer: the downloadWithRetry call of one installDotNet
    earlier         \* the outcome of the earlier deduplicateVersions (part_010)

runVars == <<inputs, installed, tasks, outputs, failed>>
dedupVars == <<catalog, versions, resolveCalls, deduplicated, previous>>
archiveVars == <<env, archiveStore, archiveCall>>
apiVars == <<cacheEnabled, requestedUrls, cacheRestored, files, store, now, remote,
             fetchCalls, persisted, sinceClear>>
cacheVars == <<keyCalls, archiveVars, apiVars>>
otherVars == <<passed, keyLog, download, earlier>>
vars == <<dedupVars, pc, runVars, cacheVars, otherVars>>

\* the cache modules before their first call
\* ---- api-cache values
Urls == {"https://example.com/api"}
\* JSON documents a server can answer with, the document null among them
JsonNull == "null"
Data == {"data1", "data2", JsonNull}
Callers == {1, 2}

\* api-cache.ts 14: 12 hours, in ticks of six hours
CACHE_DURATION_MS == 2

\* the content of a cache file: absent, not readable as JSON, JSON without a
\* timestamp, or a CachedResponse
Absent == [kind |-> "absent", data |-> "", timestamp |-> 0]
Invalid == [kind |-> "invalid", data |-> "", timestamp |-> 0]
NoTimestamp == [kind |-> "noTimestamp", data |-> "", timestamp |-> 0]
CachedResponse(data, timestamp) ==
    [kind |-> "entry", data |-> data, timestamp |-> timestamp]
NotRead == [kind |-> "notRead", data |-> "", timestamp |-> 0]

EmptyApiKey == [name |-> "dotnet-api-cache-v1-empty", window |-> 0, urls |-> <<>>]
NoStore == [saved |-> FALSE, key |-> EmptyApiKey, files |-> [u \in Urls |-> Absent]]

\* no clearApiCache call had an entry to remove since the last
\* fetchWithCache call ended
NoClear == [cached |-> {}, removed |-> FALSE]
\* restores: the cache.restoreCache requests made since clearApiCache last
\* ran; clear: the URLs that had an entry when clearApiCache ran and whether
\* rm removed the directory, until a complete fetchWithCache call has followed
NotCleared == [restores |-> 0, clear |-> NoClear]

NoCall ==
    [pc |-> "idle", url |-> "", concurrent |-> FALSE, key |-> EmptyApiKey,
     restore |-> "none",
     content |-> NotRead, fetched |-> FALSE, response |-> "none", data |-> "",
     timestamp |-> 0, saved |-> "none", result |-> "none", value |-> "",
     message |-> ""]

NoPersist == [contacted |-> FALSE, answer |-> "none", outcome |-> "none"]

\* the state of api-cache.ts when nothing has called it: no file, no
\* server, no call
ApiIdle ==
    /\ cacheEnabled = FALSE
    /\ requestedUrls = <<>>
    /\ cacheRestored = FALSE
    /\ files = <<>>
    /\ store = <<>>
    /\ now = 0
    /\ remote = <<>>
    /\ fetchCalls = <<>>
    /\ persisted = <<>>
    /\ sinceClear = <<>>

NoArchiveCall ==
    [op |-> "none", key |-> "", outcome |-> "none", value |-> FALSE, warned |-> FALSE]

\* the api-cache key runs, the installer and the earlier deduplicator
\* before their first call
OtherIdle ==
    /\ passed = <<>>
    /\ keyLog = {}
    /\ download = <<>>
    /\ earlier = <<>>

CachesIdle ==
    /\ OtherIdle
    /\ keyCalls = <<>>
    /\ env = <<>>
    /\ archiveStore = {}
    /\ archiveCall = <<>>
    /\ ApiIdle

\* ---------------------------------------------------------- version-resolver
IsPrerelease(v) == v % 2 = 1

SetMax(S) == CHOOSE m \in S : \A x \in S : x <= m

\* the versions of one artifact type that the manifest lists
Available(type) == {catalog[i][type] : i \in 1..Len(catalog)} \ {Null}

Candidates(type, allowPrerelease) ==
    {v \in Available(type) : allowPrerelease \/ ~IsPrerelease(v)}

resolveVersion(v, type, allowPrerelease) ==
    IF v \in Version THEN v
    ELSE LET matching == Candidates(type, allowPrerelease)
         IN  IF matching = {} THEN Threw ELSE SetMax(matching)

\* --------------------------------------------------------- sdk-runtime-mapper
RECURSIVE FindRelease(_, _)
FindRelease(sdk, i) ==
    IF i > Len(catalog) THEN 0
    ELSE IF catalog[i].sdk = sdk THEN i
    ELSE FindRelease(sdk, i + 1)

getSdkIncludedVersions(sdk) ==
    LET i == FindRelease(sdk, 1)
    IN  IF i = 0 THEN [runtime |-> Null, aspnetcore |-> Null]
        ELSE [runtime |-> catalog[i].runtime, aspnetcore |-> catalog[i].aspnetcore]

\* --------------------------------------------------------- version-deduplicator
Range(s) == {s[i] : i \in 1..Len(s)}

\* version-deduplicator.ts 10-27: what each resolveVersion call is given
\* variant: the runtime specifiers are resolved with the sdk flag
resolveArguments_SdkFlag(vs) ==
    [sdk |-> [list |-> vs.sdk.versions, type |-> "sdk",
              allowPrerelease |-> vs.sdk.allowPrerelease],
     runtime |-> [list |-> vs.runtime.versions, type |-> "runtime",
                  allowPrerelease |-> vs.sdk.allowPrerelease],
     aspnetcore |-> [list |-> vs.aspnetcore.versions, type |-> "aspnetcore",
                     allowPrerelease |-> vs.aspnetcore.allowPrerelease]]

resolveArguments(vs) ==
    [sdk |-> [list |-> vs.sdk.versions, type |-> "sdk",
              allowPrerelease |-> vs.sdk.allowPrerelease],
     runtime |-> [list |-> vs.runtime.versions, type |-> "runtime",
                  allowPrerelease |-> vs.runtime.allowPrerelease],
     aspnetcore |-> [list |-> vs.aspnetcore.versions, type |-> "aspnetcore",
                     allowPrerelease |-> vs.aspnetcore.allowPrerelease]]

Resolve(args) ==
    [i \in 1..Len(args.list) |->
        [original |-> args.list[i],
         resolved |-> resolveVersion(args.list[i], args.type, args.allowPrerelease)]]

resolvedSdk(vs) == Resolve(resolveArguments(vs).sdk)
resolvedRuntime(vs) == Resolve(resolveArguments(vs).runtime)
resolvedAspnetcore(vs) == Resolve(resolveArguments(vs).aspnetcore)

\* new Set(list.map((v) => v.resolved))
ResolvedSet(list) == {list[i].resolved : i \in 1..Len(list)}

\* variant: an SDK without release information excludes every runtime version
sdkIncludedRuntimes_UnknownCoversAll(sdks) ==
    UNION {LET included == getSdkIncludedVersions(sdks[i].resolved)
           IN  IF included.runtime = Null /\ included.aspnetcore = Null
               THEN Version ELSE {included.runtime}
            : i \in 1..Len(sdks)} \ {Null}

\* version-deduplicator.ts 32-45: only included.runtime is added to the set
sdkIncludedRuntimes(sdks) ==
    {getSdkIncludedVersions(sdks[i].resolved).runtime : i \in 1..Len(sdks)} \ {Null}

\* the local constants of one deduplicateVersions call (lines 10-45)
Locals(vs) ==
    LET sdks == resolvedSdk(vs)
        aspnetcores == resolvedAspnetcore(vs)
    IN  [resolvedSdk |-> sdks,
         resolvedRuntime |-> resolvedRuntime(vs),
         resolvedAspnetcore |-> aspnetcores,
         sdkSet |-> ResolvedSet(sdks),
         aspnetcoreSet |-> ResolvedSet(aspnetcores),
         sdkIncludedRuntimes |-> sdkIncludedRuntimes(sdks)]

\* variant: a runtime entry is not compared with the aspnetcore requests
KeepRuntime_NoAspnetcore(l, e) ==
    /\ e.resolved \notin l.sdkIncludedRuntimes
    /\ e.resolved \notin l.sdkSet

KeepRuntime(l, e) ==
    /\ e.resolved \notin l.sdkIncludedRuntimes
    /\ ~(e.resolved \in l.aspnetcoreSet \/ e.resolved \in l.sdkSet)

\* variant: an aspnetcore entry is also dropped for an equal runtime request
KeepAspnetcore_RuntimeCovers(l, e) ==
    /\ e.resolved \notin l.sdkIncludedRuntimes
    /\ e.resolved \notin l.sdkSet
    /\ e.resolved \notin ResolvedSet(l.resolvedRuntime)

KeepAspnetcore(l, e) ==
    /\ e.resolved \notin l.sdkIncludedRuntimes
    /\ e.resolved \notin l.sdkSet

Reverse(list) == [i \in 1..Len(list) |-> list[Len(list) + 1 - i]]

\* variant: the kept runtime entries are collected back to front
filteredRuntime_Reversed(l) ==
    Reverse(SelectSeq(l.resolvedRuntime, LAMBDA e : KeepRuntime(l, e)))

filteredRuntime(l) == SelectSeq(l.resolvedRuntime, LAMBDA e : KeepRuntime(l, e))
filteredAspnetcore(l) == SelectSeq(l.resolvedAspnetcore, LAMBDA e : KeepAspnetcore(l, e))

RECURSIVE DedupLoop(_, _, _, _)
DedupLoop(list, i, seen, result) ==
    IF i > Len(list) THEN result
    ELSE IF list[i].resolved \in seen THEN DedupLoop(list, i + 1, seen, result)
    ELSE DedupLoop(list, i + 1, seen \cup {list[i].resolved},
                   Append(result, list[i].resolved))

\* variant: of several entries with one resolved version the last is kept
removeDuplicatesWithinType_KeepLast(list) ==
    Reverse(DedupLoop(Reverse(list), 1, {}, <<>>))

\* variant: result.unshift instead of result.push
removeDuplicatesWithinType_Unshift(list) == Reverse(DedupLoop(list, 1, {}, <<>>))

\* variant: the original specifier is pushed, as the earlier deduplicator did
removeDuplicatesWithinType_Original(list) ==
    LET kept == SelectSeq([i \in 1..Len(list) |-> [at |-> i, e |-> list[i]]],
                          LAMBDA x : \A j \in 1..(x.at - 1) :
                                        list[j].resolved # x.e.resolved)
    IN  [k \in 1..Len(kept) |-> kept[k].e.original]

removeDuplicatesWithinType(list) == DedupLoop(list, 1, {}, <<>>)

\* variant: SDK entries covered by an aspnetcore request are dropped as well
uniqueSdk_DropCovered(l) ==
    removeDuplicatesWithinType(
        SelectSeq(l.resolvedSdk, LAMBDA e : e.resolved \notin l.aspnetcoreSet))

uniqueSdk(l) == removeDuplicatesWithinType(l.resolvedSdk)
uniqueRuntime(l) == removeDuplicatesWithinType(filteredRuntime(l))
uniqueAspnetcore(l) == removeDuplicatesWithinType(filteredAspnetcore(l))

\* a resolveVersion call of lines 10-27 raises
ResolveThrows(l) ==
    Threw \in ResolvedSet(l.resolvedSdk) \cup ResolvedSet(l.resolvedRuntime)
                \cup ResolvedSet(l.resolvedAspnetcore)

\* The value of a call: status "ok" with the three lists, or status "threw"
\* (an error propagates, nothing is returned); "none" before the call.
NoPlan(status) == [status |-> status, sdk |-> <<>>, runtime |-> <<>>, aspnetcore |-> <<>>]

\* variant: an unresolved specifier is skipped and the rest is returned
deduplicateVersions_Partial(vs) ==
    LET l == Locals(vs)
    IN  [status |-> "ok",
         sdk |-> SelectSeq(uniqueSdk(l), LAMBDA v : v # Threw),
         runtime |-> SelectSeq(uniqueRuntime(l), LAMBDA v : v # Threw),
         aspnetcore |-> SelectSeq(uniqueAspnetcore(l), LAMBDA v : v # Threw)]

deduplicateVersions(vs) ==
    LET l == Locals(vs)
    IN  IF ResolveThrows(l) THEN NoPlan("threw")
        ELSE [status |-> "ok",
              sdk |-> uniqueSdk(l),
              runtime |-> uniqueRuntime(l),
              aspnetcore |-> uniqueAspnetcore(l)]

\* The calls to resolveVersion that one deduplicateVersions call makes, in
\* order (sdk, runtime, aspnetcore); the first call that raises is the last.
CallSeq(args) ==
    [i \in 1..Len(args.list) |-> <<args.list[i], args.type, args.allowPrerelease>>]

AllCalls(vs) ==
    LET args == resolveArguments(vs)
    IN  CallSeq(args.sdk) \o CallSeq(args.runtime) \o CallSeq(args.aspnetcore)

CallThrows(call) == resolveVersion(call[1], call[2], call[3]) = Threw

CallsMade(vs) ==
    LET calls == AllCalls(vs)
        raising == {k \in 1..Len(calls) : CallThrows(calls[k])}
    IN  IF raising = {} THEN calls
        ELSE SubSeq(calls, 1, CHOOSE k \in raising : \A j \in raising : k <= j)

\* ------------------------------------------------------------------ actions
\* the manifest snapshot of a run: no release yet, or one release
Catalogs == {<<>>} \cup {<<r>> : r \in Release}

EmptyVersions ==
    [t \in DotnetType |-> [versions |-> <<>>, allowPrerelease |-> FALSE]]

\* run() has not been called
RunIdle ==
    /\ inputs = <<>>
    /\ installed = {}
    /\ tasks = <<>>
    /\ outputs = <<>>
    /\ failed = ""

NoInputs ==
    [sdkInput |-> <<>>, runtimeInput |-> <<>>, aspnetcoreInput |-> <<>>,
     globalJson |-> [found |-> FALSE, version |-> Latest, allowPrerelease |-> FALSE],
     allowPreview |-> FALSE]

NoOutputs == [set |-> FALSE, versions |-> <<>>]

\* The requests a call is given.  The flag of a type without specifiers is
\* never read (the map callback of lines 10-27 does not run), so it is FALSE.
Flags(n) == IF n = 0 THEN {FALSE} ELSE BOOLEAN

Requests ==
    UNION {UNION {UNION {
        [sdk : [versions : [1..a -> Specifier], allowPrerelease : Flags(a)],
         runtime : [versions : [1..b -> Specifier], allowPrerelease : Flags(b)],
         aspnetcore : [versions : [1..c -> Specifier], allowPrerelease : Flags(c)]]
        : c \in 0..(MaxTotal - a - b)} : b \in 0..(MaxTotal - a)} : a \in 0..MaxTotal}

Init ==
    /\ catalog \in Catalogs
    /\ versions = EmptyVersions
    /\ resolveCalls = <<>>
    /\ deduplicated = NoPlan("none")
    /\ previous = NoPlan("none")
    /\ pc = "call"
    /\ RunIdle
    /\ CachesIdle

\* version-deduplicator.ts 7-89, one call: a first call with some requests,
\* a second call with what Reapply passes in; a call that returns has made
\* every resolveVersion call
Deduplicate ==
    /\ pc = "call"
    /\ \E vs \in (IF previous.status = "none" THEN Requests ELSE {versions}) :
          LET d == deduplicateVersions(vs)
          IN  /\ versions' = vs
              /\ deduplicated' = d
              /\ pc' = IF d.status = "threw" THEN "threw" ELSE "returned"
              /\ resolveCalls' = IF d.status = "threw" THEN CallsMade(vs) ELSE AllCalls(vs)
    /\ UNCHANGED <<catalog, previous, runVars, cacheVars, otherVars>>

\* the caller passes the returned plan back in, as exact specifiers
Reapply ==
    /\ pc = "returned"
    /\ previous.status = "none"
    /\ previous' = deduplicated
    /\ versions' = [t \in DotnetType |->
                      [versions |-> deduplicated[t],
                       allowPrerelease |-> versions[t].allowPrerelease]]
    /\ deduplicated' = NoPlan("none")
    /\ resolveCalls' = <<>>
    /\ pc' = "call"
    /\ UNCHANGED <<catalog, runVars, cacheVars, otherVars>>

Next == Deduplicate \/ Reapply

Spec == Init /\ [][Next]_vars

\* one call of deduplicateVersions on each catalog and request
NextCall == Deduplicate

SpecCall == Init /\ [][NextCall]_vars

\* ------------------------------------------------------------------- main.ts
NoVersionMessage ==
    "At least one of sdk-version, runtime-version, or aspnetcore-version must be specified"
ResolveErrorMessage == "version could not be resolved"
FetchErrorMessage == "release info could not be fetched"
InstallErrorMessage == "installation failed"

\* variant: the SDK always takes the allow-preview input
resolveSdkVersions_AllowPreview(in) ==
    IF in.sdkInput # <<>>
    THEN [versions |-> in.sdkInput, allowPrerelease |-> in.allowPreview]
    ELSE IF in.globalJson.found
    THEN [versions |-> <<in.globalJson.version>>, allowPrerelease |-> in.allowPreview]
    ELSE [versions |-> <<>>, allowPrerelease |-> in.allowPreview]

resolveSdkVersions(in) ==
    IF in.sdkInput # <<>>
    THEN [versions |-> in.sdkInput, allowPrerelease |-> in.allowPreview]
    ELSE IF in.globalJson.found
    THEN [versions |-> <<in.globalJson.version>>,
          allowPrerelease |-> in.globalJson.allowPrerelease]
    ELSE [versions |-> <<>>, allowPrerelease |-> in.allowPreview]

resolveRequestedVersions(in) ==
    [sdk |-> resolveSdkVersions(in),
     runtime |-> [versions |-> in.runtimeInput, allowPrerelease |-> in.allowPreview],
     aspnetcore |-> [versions |-> in.aspnetcoreInput, allowPrerelease |-> in.allowPreview]]

\* variant: only the sdk list is looked at
NoneRequested_SdkOnly(vs) == Len(vs.sdk.versions) = 0

NoneRequested(vs) ==
    /\ Len(vs.sdk.versions) = 0
    /\ Len(vs.runtime.versions) = 0
    /\ Len(vs.aspnetcore.versions) = 0

PlanItems(list, type) == [i \in 1..Len(list) |-> [version |-> list[i], type |-> type]]

\* variant: the sdk entries are pushed last
buildInstallPlan_SdkLast(d) ==
    PlanItems(d.runtime, "runtime") \o PlanItems(d.aspnetcore, "aspnetcore")
        \o PlanItems(d.sdk, "sdk")

buildInstallPlan(d) ==
    PlanItems(d.sdk, "sdk") \o PlanItems(d.runtime, "runtime")
        \o PlanItems(d.aspnetcore, "aspnetcore")

areAllVersionsInstalled(d, inst) == Range(buildInstallPlan(d)) \subseteq inst

GlobalJsonInfos ==
    {NoInputs.globalJson} \cup
    [found : {TRUE}, version : Specifier, allowPrerelease : BOOLEAN]

Inputs ==
    UNION {UNION {UNION {
        [sdkInput : [1..a -> Specifier], runtimeInput : [1..b -> Specifier],
         aspnetcoreInput : [1..c -> Specifier], globalJson : GlobalJsonInfos,
         allowPreview : BOOLEAN]
        : c \in 0..(MaxInputs - a - b)} : b \in 0..(MaxInputs - a)} : a \in 0..MaxInputs}

InitRun ==
    /\ catalog \in Catalogs
    /\ inputs \in Inputs
    /\ versions = EmptyVersions
    /\ resolveCalls = <<>>
    /\ deduplicated = NoPlan("none")
    /\ previous = NoPlan("none")
    /\ installed = {}
    /\ tasks = <<>>
    /\ outputs = NoOutputs
    /\ failed = ""
    /\ pc = "start"
    /\ CachesIdle

\* main.ts 251-252 with 107-111: an sdk-version input is parsed and
\* resolveRequestedVersions returns; without one the call awaits readGlobalJson
RunResolveRequested ==
    /\ pc = "start"
    /\ IF inputs.sdkInput # <<>>
       THEN versions' = resolveRequestedVersions(inputs) /\ pc' = "ensure"
       ELSE versions' = versions /\ pc' = "globalJson"
    /\ UNCHANGED <<catalog, resolveCalls, deduplicated, previous, runVars, cacheVars, otherVars>>

\* main.ts 113-126 and 132-146: readGlobalJson has answered
RunReadGlobalJson ==
    /\ pc = "globalJson"
    /\ versions' = resolveRequestedVersions(inputs)
    /\ pc' = "ensure"
    /\ UNCHANGED <<catalog, resolveCalls, deduplicated, previous, runVars, cacheVars, otherVars>>

\* main.ts 254, 148-158, and the catch of 274-280
RunEnsureRequested ==
    /\ pc = "ensure"
    /\ IF NoneRequested(versions)
       THEN failed' = NoVersionMessage /\ pc' = "failed"
       ELSE failed' = failed /\ pc' = "fetch"
    /\ UNCHANGED <<catalog, versions, resolveCalls, deduplicated, previous,
                   inputs, installed, tasks, outputs, cacheVars, otherVars>>

\* main.ts 255: fetchAndCacheReleaseInfo returns, or raises a network error
RunFetchReleaseInfo ==
    /\ pc = "fetch"
    /\ \E ok \in BOOLEAN :
          IF ok THEN failed' = failed /\ pc' = "deduplicate"
          ELSE failed' = FetchErrorMessage /\ pc' = "failed"
    /\ UNCHANGED <<catalog, versions, resolveCalls, deduplicated, previous,
                   inputs, installed, tasks, outputs, cacheVars, otherVars>>

\* main.ts 257, and the catch of 274-280 when the call raises
RunDeduplicate ==
    /\ pc = "deduplicate"
    /\ LET d == deduplicateVersions(versions)
       IN  /\ deduplicated' = d
           /\ IF d.status = "threw"
              THEN failed' = ResolveErrorMessage /\ pc' = "failed"
              ELSE failed' = failed /\ pc' = "check"
    /\ resolveCalls' = CallsMade(versions)
    /\ UNCHANGED <<catalog, versions, previous, inputs, installed, tasks, outputs, cacheVars, otherVars>>

\* main.ts 259-267
RunCheckInstalled ==
    /\ pc = "check"
    /\ \E inst \in SUBSET Range(buildInstallPlan(deduplicated)) :
          /\ installed' = inst
          /\ pc' = IF areAllVersionsInstalled(deduplicated, inst) THEN "done" ELSE "plan"
    /\ UNCHANGED <<catalog, versions, resolveCalls, deduplicated, previous,
                   inputs, tasks, outputs, failed, cacheVars, otherVars>>

\* main.ts 269-272, 178-188: every task of the plan is started
RunExecuteInstallPlan ==
    /\ pc = "plan"
    /\ tasks' = buildInstallPlan(deduplicated)
    /\ pc' = "installing"
    /\ UNCHANGED <<catalog, versions, resolveCalls, deduplicated, previous,
                   inputs, installed, outputs, failed, cacheVars, otherVars>>

\* main.ts 191-195, 273: all tasks succeed and the outputs are set
RunInstalled ==
    /\ pc = "installing"
    /\ outputs' = [set |-> TRUE, versions |-> tasks]
    /\ pc' = "done"
    /\ UNCHANGED <<catalog, versions, resolveCalls, deduplicated, previous,
                   inputs, installed, tasks, failed, cacheVars, otherVars>>

\* main.ts 191, 274-280: a task raises
RunInstallFails ==
    /\ pc = "installing"
    /\ failed' = InstallErrorMessage
    /\ pc' = "failed"
    /\ UNCHANGED <<catalog, versions, resolveCalls, deduplicated, previous,
                   inputs, installed, tasks, outputs, cacheVars, otherVars>>

NextRun ==
    \/ RunResolveRequested
    \/ RunReadGlobalJson
    \/ RunEnsureRequested
    \/ RunFetchReleaseInfo
    \/ RunDeduplicate
    \/ RunCheckInstalled
    \/ RunExecuteInstallPlan
    \/ RunInstalled
    \/ RunInstallFails

SpecRun == InitRun /\ [][NextRun]_vars

\* ------------------------------------------------ cache-utils: generateCacheKey
\* A string is modelled by the sequence of its parts, so that joining strings
\* is concatenation and two strings are equal when their parts are.
\* the platforms, and two of the three architectures, platform-utils reports
Platforms == {"linux", "osx", "win"}
Architectures == {"arm64", "x64"}

\* `sdk:${v}`, `runtime:${v}`, `aspnetcore:${v}`
EntryString(type, v) == <<type, ":", v>>

\* variant: the type prefix is left out of an entry
EntryStrings_NoPrefix(list, type) == [i \in 1..Len(list) |-> <<"", ":", list[i]>>]

EntryStrings(list, type) == [i \in 1..Len(list) |-> EntryString(type, list[i])]

\* a.localeCompare(b) <= 0 for two entry strings: "aspnetcore:" sorts before
\* "runtime:" and "runtime:" before "sdk:", then the version parts decide
PrefixRank(prefix) ==
    IF prefix = "" THEN 0
    ELSE IF prefix = "aspnetcore" THEN 1
    ELSE IF prefix = "runtime" THEN 2
    ELSE 3

LocaleCompareLeq(a, b) ==
    \/ PrefixRank(a[1]) < PrefixRank(b[1])
    \/ PrefixRank(a[1]) = PrefixRank(b[1]) /\ a[3] <= b[3]

\* insertion of one entry into a sorted array
RECURSIVE InsertSorted(_, _)
InsertSorted(sorted, e) ==
    IF sorted = <<>> THEN <<e>>
    ELSE IF LocaleCompareLeq(e, Head(sorted)) THEN <<e>> \o sorted
    ELSE <<Head(sorted)>> \o InsertSorted(Tail(sorted), e)

RECURSIVE SortEntries(_)
SortEntries(entries) ==
    IF entries = <<>> THEN <<>>
    ELSE InsertSorted(SortEntries(Tail(entries)), Head(entries))

\* variant: the entries are joined in the order given
SortedEntries_Unsorted(entries) == entries

\* .sort((a, b) => a.localeCompare(b))
SortedEntries(entries) == SortEntries(entries)

\* .join(',')
RECURSIVE Join(_)
Join(entries) ==
    IF entries = <<>> THEN <<>>
    ELSE IF Len(entries) = 1 THEN entries[1]
    ELSE entries[1] \o <<",">> \o Join(Tail(entries))

\* crypto.createHash('sha256').update(s).digest('hex').substring(0, 12): the
\* digest stands for the string it was computed from (no two strings of the
\* model share a digest prefix)
ShortHash(string) == [sha256 |-> string]

versionString(vs) ==
    Join(SortedEntries(EntryStrings(vs.sdk, "sdk")
                       \o EntryStrings(vs.runtime, "runtime")
                       \o EntryStrings(vs.aspnetcore, "aspnetcore")))

\* `dotnet-archives-${platform}-${arch}-${shortHash}`
generateCacheKey(vs, platform, arch) ==
    <<"dotnet-archives", "-", platform, "-", arch, "-", ShortHash(versionString(vs))>>

\* the arguments of a call: resolved versions per type, and the host
CacheVersions ==
    UNION {UNION {UNION {
        [sdk : [1..a -> Version], runtime : [1..b -> Version],
         aspnetcore : [1..c -> Version]]
        : c \in 0..(MaxKeyEntries - a - b)} : b \in 0..(MaxKeyEntries - a)}
        : a \in 0..MaxKeyEntries}

InitKey ==
    /\ catalog = <<>>
    /\ versions = EmptyVersions
    /\ resolveCalls = <<>>
    /\ deduplicated = NoPlan("none")
    /\ previous = NoPlan("none")
    /\ RunIdle
    /\ pc = "key"
    /\ CachesIdle

\* cache-utils 31-51, one call on some host
GenerateCacheKey ==
    /\ pc = "key"
    /\ Len(keyCalls) < 2
    /\ \E v \in CacheVersions, platform \in Platforms, arch \in Architectures :
          keyCalls' = Append(keyCalls,
              [versions |-> v, platform |-> platform, arch |-> arch,
               key |-> generateCacheKey(v, platform, arch)])
    /\ UNCHANGED <<dedupVars, pc, runVars, archiveVars, apiVars, otherVars>>

NextKey == GenerateCacheKey

SpecKey == InitKey /\ [][NextKey]_vars

\* ----------------------------- cache-utils: restoreCache, saveCache, cacheExists
ArchiveKeys == {"dotnet-archives-linux-x64-a", "dotnet-archives-linux-x64-b"}

\* what @actions/cache can answer to a restore of a key
RestoreOutcomes(key) ==
    {"error"} \cup (IF key \in archiveStore THEN {"hit"} ELSE {"miss"})

\* what @actions/cache can answer to a save of a key
SaveOutcomes(key) ==
    {"error"} \cup (IF key \in archiveStore THEN {"ReserveCacheError"} ELSE {"saved"})

\* cache-utils 16-25: TRUE when the directory is returned, FALSE when it raises
getArchiveCacheDirectory == env.AGENT_TOOLSDIRECTORY \/ env.RUNNER_TOOL_CACHE

ArchiveResult(op, key, outcome, value, warned) ==
    [op |-> op, key |-> key, outcome |-> outcome, value |-> value, warned |-> warned]

\* cache-utils 57-75
restoreCache(key, answer) ==
    IF ~getArchiveCacheDirectory
    THEN ArchiveResult("restoreCache", key, "raised", FALSE, FALSE)
    ELSE ArchiveResult("restoreCache", key, "returned", answer = "hit", answer = "error")

\* cache-utils 80-99
saveCache(key, answer) ==
    IF ~getArchiveCacheDirectory
    THEN ArchiveResult("saveCache", key, "raised", FALSE, FALSE)
    ELSE ArchiveResult("saveCache", key, "returned", FALSE, answer # "saved")

\* cache-utils 104-122
cacheExists(key, answer) ==
    IF ~getArchiveCacheDirectory \/ answer = "error"
    THEN ArchiveResult("cacheExists", key, "returned", FALSE, TRUE)
    ELSE ArchiveResult("cacheExists", key, "returned", answer = "hit", FALSE)

InitArchive ==
    /\ catalog = <<>>
    /\ versions = EmptyVersions
    /\ resolveCalls = <<>>
    /\ deduplicated = NoPlan("none")
    /\ previous = NoPlan("none")
    /\ RunIdle
    /\ pc = "archive"
    /\ keyCalls = <<>>
    /\ env \in [AGENT_TOOLSDIRECTORY : BOOLEAN, RUNNER_TOOL_CACHE : BOOLEAN]
    /\ archiveStore \in SUBSET ArchiveKeys
    /\ archiveCall = NoArchiveCall
    /\ ApiIdle
    /\ OtherIdle

RestoreCache ==
    /\ pc = "archive"
    /\ \E key \in ArchiveKeys : \E answer \in RestoreOutcomes(key) :
          archiveCall' = restoreCache(key, answer)
    /\ UNCHANGED <<dedupVars, pc, runVars, keyCalls, env, archiveStore, apiVars, otherVars>>

SaveCache ==
    /\ pc = "archive"
    /\ \E key \in ArchiveKeys : \E answer \in SaveOutcomes(key) :
          /\ archiveCall' = saveCache(key, answer)
          /\ archiveStore' = IF getArchiveCacheDirectory /\ answer = "saved"
                              THEN archiveStore \cup {key} ELSE archiveStore
    /\ UNCHANGED <<dedupVars, pc, runVars, keyCalls, env, apiVars, otherVars>>

CacheExists ==
    /\ pc = "archive"
    /\ \E key \in ArchiveKeys : \E answer \in RestoreOutcomes(key) :
          archiveCall' = cacheExists(key, answer)
    /\ UNCHANGED <<dedupVars, pc, runVars, keyCalls, env, archiveStore, apiVars, otherVars>>

NextArchive == RestoreCache \/ SaveCache \/ CacheExists

SpecArchive == InitArchive /\ [][NextArchive]_vars

\* -------------------------------------------------------------- api-cache.ts
\* A cache file is named by a digest of its URL (generateCacheKey(url), 16
\* hex digits of sha256, taken to be free of collisions on Urls), so files is
\* indexed by URL.

\* getCachedResponse, 58-77: what the function answers for the content that
\* readFile delivered at time t, null (JsonNull) for none.  JSON.parse raises
\* on content that is not JSON and the catch answers null; a document
\* without timestamp has the age NaN, which is not below CACHE_DURATION_MS.
Raised == "raised"

\* variant: readFile and JSON.parse outside the try
getCachedResponse_NoCatch(content, t) ==
    IF content.kind \in {"absent", "invalid"} THEN Raised
    ELSE IF content.kind = "entry" /\ t - content.timestamp < CACHE_DURATION_MS
         THEN content.data
         ELSE JsonNull

getCachedResponse(content, t) ==
    IF content.kind = "entry" /\ t - content.timestamp < CACHE_DURATION_MS
    THEN content.data
    ELSE JsonNull

\* requestedUrls is a Set<string>: it keeps its elements in insertion order,
\* and add leaves the set alone when the element is in it
SetAdd(set, e) == IF e \in Range(set) THEN set ELSE Append(set, e)

\* Array.prototype.sort() without a comparator orders strings by code unit;
\* UrlOrder lists the URLs of the model in that order
UrlOrder == <<"https://example.com/api", "https://example.com/api1",
              "https://example.com/api2">>
UrlRank(url) == CHOOSE i \in 1..Len(UrlOrder) : UrlOrder[i] = url

RECURSIVE InsertUrl(_, _)
InsertUrl(sorted, url) ==
    IF sorted = <<>> THEN <<url>>
    ELSE IF UrlRank(url) < UrlRank(Head(sorted)) THEN <<url>> \o sorted
    ELSE <<Head(sorted)>> \o InsertUrl(Tail(sorted), url)

RECURSIVE SortLoop(_, _, _)
SortLoop(list, i, sorted) ==
    IF i > Len(list) THEN sorted
    ELSE SortLoop(list, i + 1, InsertUrl(sorted, list[i]))

\* variant: the URLs are joined in the order of their insertion
SortUrls_Unsorted(urls) == urls

\* Array.from(requestedUrls).sort(), line 116
SortUrls(urls) == SortLoop(urls, 1, <<>>)

\* generateApiCacheKey, 110-128: the sorted URLs stand for the digest of
\* their joined string (sha256 is taken to be free of collisions on them),
\* the time window is floor(Date.now() / CACHE_DURATION_MS)
generateApiCacheKey(urls, t) ==
    IF Len(urls) = 0 THEN EmptyApiKey
    ELSE [name |-> "dotnet-api-cache-v1", window |-> t \div CACHE_DURATION_MS,
          urls |-> SortUrls(urls)]

\* the answers cache.restoreCache and cache.saveCache can give for a key
RestoreAnswers(key) ==
    {"error", "miss"} \cup (IF store.saved /\ store.key = key THEN {"hit"} ELSE {})

SaveAnswers(key) ==
    {"error"} \cup (IF store.saved /\ store.key = key
                    THEN {"ReserveCacheError"} ELSE {"saved"})

\* extraction of the restored archive writes its files over the local ones
Extracted ==
    [u \in Urls |-> IF store.files[u].kind = "absent" THEN files[u] ELSE store.files[u]]

Responses == {"ok", "notOk", "rejected"}

Idle == \A c \in Callers : fetchCalls[c].pc = "idle"

\* variant: a failure of saveCachedResponse is raised again
Returns_Rethrows(call, data) ==
    [call EXCEPT !.pc = "idle", !.result = IF call.saved = "failed" THEN "threw" ELSE "returned",
                 !.value = IF call.saved = "failed" THEN "" ELSE data]

Returns(call, data) ==
    [call EXCEPT !.pc = "idle", !.result = "returned", !.value = data]

\* variant: the error is logged and the call returns
Throws_Swallowed(call, message) ==
    [call EXCEPT !.pc = "idle", !.result = "returned"]

Throws(call, message) ==
    [call EXCEPT !.pc = "idle", !.result = "threw", !.message = message]

\* the history once this step of caller c is taken: a call that ends here
\* is the call that followed clearApiCache
Followed(c) ==
    IF fetchCalls'[c].pc = "idle" THEN [sinceClear EXCEPT !.clear = NoClear]
    ELSE sinceClear

InitApi ==
    /\ catalog = <<>>
    /\ versions = EmptyVersions
    /\ resolveCalls = <<>>
    /\ deduplicated = NoPlan("none")
    /\ previous = NoPlan("none")
    /\ pc = "api"
    /\ RunIdle
    /\ keyCalls = <<>>
    /\ env = <<>>
    /\ archiveStore = {}
    /\ archiveCall = <<>>
    /\ cacheEnabled = FALSE
    /\ requestedUrls = <<>>
    /\ cacheRestored = FALSE
    /\ files \in [Urls -> {Absent, Invalid, NoTimestamp}]
    /\ store = NoStore
    /\ now = 0
    /\ remote \in [Urls -> Data]
    /\ fetchCalls = [c \in Callers |-> NoCall]
    /\ persisted = NoPersist
    /\ sinceClear = NotCleared
    /\ OtherIdle

ApiFrame == UNCHANGED <<dedupVars, pc, runVars, keyCalls, archiveVars, otherVars>>

\* configureCaching, 22-25; the action configures before or between calls
ConfigureCaching(enabled) ==
    /\ pc = "api"
    /\ Idle
    /\ cacheEnabled' = enabled
    /\ ApiFrame
    /\ UNCHANGED <<requestedUrls, cacheRestored, files, store, now, remote, fetchCalls, persisted, sinceClear>>

\* fetchWithCache, 199-209 up to the await of cache.restoreCache: the URL is
\* recorded, and restoreApiCache computes its key before it awaits
StartFetch(c, url) ==
    /\ pc = "api"
    /\ fetchCalls[c].pc = "idle"
    /\ requestedUrls' = IF cacheEnabled THEN SetAdd(requestedUrls, url) ELSE requestedUrls
    /\ sinceClear' = [sinceClear EXCEPT !.restores =
                         IF cacheEnabled /\ ~cacheRestored THEN @ + 1 ELSE @]
    /\ LET call == [NoCall EXCEPT !.url = url, !.concurrent = ~Idle]
       IN  fetchCalls' = [fetchCalls EXCEPT ![c] =
              IF cacheEnabled /\ ~cacheRestored
              THEN [call EXCEPT !.pc = "restore",
                                !.key = generateApiCacheKey(requestedUrls', now)]
              ELSE [call EXCEPT !.pc = "read"]]
    /\ ApiFrame
    /\ UNCHANGED <<cacheEnabled, cacheRestored, files, store, now, remote, persisted>>

\* restoreApiCache, 143-153, and fetchWithCache 208: cache.restoreCache
\* answers, and only then the flag is set
RestoreApiCache(c) ==
    /\ pc = "api"
    /\ fetchCalls[c].pc = "restore"
    /\ \E answer \in RestoreAnswers(fetchCalls[c].key) :
          /\ files' = IF answer = "hit" THEN Extracted ELSE files
          /\ fetchCalls' = [fetchCalls EXCEPT ![c].restore = answer, ![c].pc = "read"]
    /\ cacheRestored' = TRUE
    /\ ApiFrame
    /\ UNCHANGED <<cacheEnabled, requestedUrls, store, now, remote, persisted, sinceClear>>

\* variant: the file is read without a look at cacheEnabled
ReadFile_WhenDisabled(url) == files[url]

\* getCachedResponse 54-60: nothing is read while caching is disabled
ReadFile(url) == IF cacheEnabled THEN files[url] ELSE NotRead

\* fetchWithCache 212-216 with getCachedResponse: readFile delivers the file
ReadCache(c) ==
    /\ pc = "api"
    /\ fetchCalls[c].pc = "read"
    /\ LET call == fetchCalls[c]
           content == ReadFile(call.url)
           cachedData == getCachedResponse(content, now)
           read == [call EXCEPT !.content = content]
       IN  fetchCalls' = [fetchCalls EXCEPT ![c] =
              IF cachedData = Raised THEN Throws(read, "read failed")
              ELSE IF cachedData # JsonNull THEN Returns(read, cachedData)
              ELSE [read EXCEPT !.pc = "fetch"]]
    /\ ApiFrame
    /\ sinceClear' = Followed(c)
    /\ UNCHANGED <<cacheEnabled, requestedUrls, cacheRestored, files, store, now, remote, persisted>>

\* fetchWithCache 219-230: the request is rejected, or answered with a
\* response that is ok or not; then the entry of saveCachedResponse (84-86)
Fetch(c) ==
    /\ pc = "api"
    /\ fetchCalls[c].pc = "fetch"
    /\ \E response \in Responses :
          LET call == [fetchCalls[c] EXCEPT !.fetched = TRUE, !.response = response]
              data == remote[call.url]
          IN  fetchCalls' = [fetchCalls EXCEPT ![c] =
                 IF response = "rejected" THEN Throws(call, "fetch failed")
                 ELSE IF response = "notOk" THEN Throws(call, "API request failed")
                 ELSE IF ~cacheEnabled THEN Returns([call EXCEPT !.data = data], data)
                 ELSE [call EXCEPT !.data = data, !.pc = "mkdir"]]
    /\ ApiFrame
    /\ sinceClear' = Followed(c)
    /\ UNCHANGED <<cacheEnabled, requestedUrls, cacheRestored, files, store, now, remote, persisted>>

\* saveCachedResponse 89-96: mkdir, then the record with timestamp Date.now()
Mkdir(c) ==
    /\ pc = "api"
    /\ fetchCalls[c].pc = "mkdir"
    /\ \E ok \in BOOLEAN :
          LET call == fetchCalls[c]
          IN  fetchCalls' = [fetchCalls EXCEPT ![c] =
                 IF ok THEN [call EXCEPT !.timestamp = now, !.pc = "open"]
                 ELSE Returns([call EXCEPT !.saved = "failed"], call.data)]
    /\ ApiFrame
    /\ sinceClear' = Followed(c)
    /\ UNCHANGED <<cacheEnabled, requestedUrls, cacheRestored, files, store, now, remote, persisted>>

\* saveCachedResponse 98: writeFile opens the file, which empties it
OpenFile(c) ==
    /\ pc = "api"
    /\ fetchCalls[c].pc = "open"
    /\ \E ok \in BOOLEAN :
          LET call == fetchCalls[c]
          IN  /\ files' = IF ok THEN [files EXCEPT ![call.url] = Invalid] ELSE files
              /\ fetchCalls' = [fetchCalls EXCEPT ![c] =
                    IF ok THEN [call EXCEPT !.pc = "write"]
                    ELSE Returns([call EXCEPT !.saved = "failed"], call.data)]
    /\ ApiFrame
    /\ sinceClear' = Followed(c)
    /\ UNCHANGED <<cacheEnabled, requestedUrls, cacheRestored, store, now, remote, persisted>>

\* variant: the record is appended to what the file holds
WrittenFile_Appended(current, record) ==
    IF current.kind = "entry" THEN Invalid ELSE record

\* saveCachedResponse 98: writeFile writes the record from the start of the
\* file it emptied; the bytes another call wrote there meanwhile are the
\* bytes of a record of the same length
WrittenFile(current, record) == record

\* saveCachedResponse 98-104: writeFile writes the record or fails, and a
\* failure is a warning
WriteFile(c) ==
    /\ pc = "api"
    /\ fetchCalls[c].pc = "write"
    /\ \E ok \in BOOLEAN :
          LET call == fetchCalls[c]
          IN  /\ files' = IF ok THEN [files EXCEPT ![call.url] =
                                         WrittenFile(files[call.url],
                                            CachedResponse(call.data, call.timestamp))]
                          ELSE files
              /\ fetchCalls' = [fetchCalls EXCEPT ![c] =
                    Returns([call EXCEPT !.saved = IF ok THEN "ok" ELSE "failed"], call.data)]
    /\ ApiFrame
    /\ sinceClear' = Followed(c)
    /\ UNCHANGED <<cacheEnabled, requestedUrls, cacheRestored, store, now, remote, persisted>>

\* variant: saveApiCache does not look into the cache directory
PersistApiCache_EmptyDirectory ==
    /\ pc = "api"
    /\ Idle
    /\ IF cacheEnabled /\ cacheRestored
       THEN LET key == generateApiCacheKey(requestedUrls, now)
            IN  \E answer \in SaveAnswers(key) :
                   /\ store' = IF answer = "saved"
                               THEN [saved |-> TRUE, key |-> key, files |-> files]
                               ELSE store
                   /\ persisted' = [contacted |-> TRUE, answer |-> answer,
                                    outcome |-> "returned"]
       ELSE /\ store' = store
            /\ persisted' = [contacted |-> FALSE, answer |-> "none", outcome |-> "returned"]
    /\ ApiFrame
    /\ UNCHANGED <<cacheEnabled, requestedUrls, cacheRestored, files, now, remote, fetchCalls, sinceClear>>

\* persistApiCache, 239-243, with saveApiCache, 159-191; the store keeps the
\* entry saved last
PersistApiCache ==
    /\ pc = "api"
    /\ Idle
    /\ IF cacheEnabled /\ cacheRestored /\ files # [u \in Urls |-> Absent]
       THEN LET key == generateApiCacheKey(requestedUrls, now)
            IN  \E answer \in SaveAnswers(key) :
                   /\ store' = IF answer = "saved"
                               THEN [saved |-> TRUE, key |-> key, files |-> files]
                               ELSE store
                   /\ persisted' = [contacted |-> TRUE, answer |-> answer,
                                    outcome |-> "returned"]
       ELSE /\ store' = store
            /\ persisted' = [contacted |-> FALSE, answer |-> "none", outcome |-> "returned"]
    /\ ApiFrame
    /\ UNCHANGED <<cacheEnabled, requestedUrls, cacheRestored, files, now, remote, fetchCalls, sinceClear>>

Cleared(ok) ==
    LET cached == {u \in Urls : files[u].kind = "entry"}
    IN  IF cached = {} THEN NoClear ELSE [cached |-> cached, removed |-> ok]

\* variant: the restored flag is left as it is
ClearApiCache_KeepsFlag ==
    /\ pc = "api"
    /\ Idle
    /\ \E ok \in BOOLEAN :
          /\ files' = IF ok THEN [u \in Urls |-> Absent] ELSE files
          /\ sinceClear' = [restores |-> 0, clear |-> Cleared(ok)]
    /\ requestedUrls' = <<>>
    /\ ApiFrame
    /\ UNCHANGED <<cacheEnabled, cacheRestored, store, now, remote, fetchCalls, persisted>>

\* clearApiCache, 248-257: rm removes the directory, or fails and is ignored
ClearApiCache ==
    /\ pc = "api"
    /\ Idle
    /\ \E ok \in BOOLEAN :
          /\ files' = IF ok THEN [u \in Urls |-> Absent] ELSE files
          /\ sinceClear' = [restores |-> 0, clear |-> Cleared(ok)]
    /\ cacheRestored' = FALSE
    /\ requestedUrls' = <<>>
    /\ ApiFrame
    /\ UNCHANGED <<cacheEnabled, store, now, remote, fetchCalls, persisted>>

\* Date.now() advances; a tick is long against a call
Tick ==
    /\ pc = "api"
    /\ Idle
    /\ now < MaxTime
    /\ now' = now + 1
    /\ ApiFrame
    /\ UNCHANGED <<cacheEnabled, requestedUrls, cacheRestored, files, store, remote, fetchCalls, persisted, sinceClear>>

\* the server publishes another document
RemoteChanges(url) ==
    /\ pc = "api"
    /\ Idle
    /\ \E data \in Data \ {remote[url]} : remote' = [remote EXCEPT ![url] = data]
    /\ ApiFrame
    /\ UNCHANGED <<cacheEnabled, requestedUrls, cacheRestored, files, store, now, fetchCalls, persisted, sinceClear>>

FetchWithCache(c) ==
    \/ \E url \in Urls : StartFetch(c, url)
    \/ RestoreApiCache(c)
    \/ ReadCache(c)
    \/ Fetch(c)
    \/ Mkdir(c)
    \/ OpenFile(c)
    \/ WriteFile(c)

\* one call at a time, on a server whose documents change
NextApi ==
    \/ \E enabled \in BOOLEAN : ConfigureCaching(enabled)
    \/ FetchWithCache(1)
    \/ PersistApiCache
    \/ ClearApiCache
    \/ Tick
    \/ \E url \in Urls : RemoteChanges(url)

SpecApi == InitApi /\ [][NextApi]_vars

\* calls of two callers interleaved at their awaits, on a server whose
\* documents stay, within one tick of the clock
InitConcurrent ==
    /\ InitApi
    /\ files \in [Urls -> {Absent, Invalid}]
    /\ remote = [u \in Urls |-> "data1"]

NextConcurrent ==
    \/ \E enabled \in BOOLEAN : ConfigureCaching(enabled)
    \/ \E c \in Callers : FetchWithCache(c)
    \/ PersistApiCache
    \/ ClearApiCache

SpecConcurrent == InitConcurrent /\ [][NextConcurrent]_vars

\* ------------------------------------------- api-cache.ts: the durable cache key
\* Two runs of the action, one after the other, each a process of its own
\* with the module variables of lines 16, 17 and 193 as declared.  The calls
\* are taken whole, one at a time; what they do to the cache files and the
\* server is left out, as generateApiCacheKey reads requestedUrls and the
\* clock only.
KeyUrls == {"https://example.com/api1", "https://example.com/api2"}

\* the URLs given to fetchWithCache while caching was enabled since the last
\* clearApiCache of the run, in the order of the calls
FirstRun == [run |-> 1, urls |-> <<>>, cleared |-> FALSE]

\* a key with the calls and the time it was computed from
NoKey == [made |-> FALSE, order |-> <<>>, cleared |-> FALSE, time |-> 0,
          key |-> EmptyApiKey]
KeyEntry(key, given) ==
    [made |-> TRUE, order |-> given.urls, cleared |-> given.cleared, time |-> now,
     key |-> key]

\* save: the key of the last saveApiCache of the first run; restore: the key
\* of the first restoreApiCache of the run at hand
NoKeys == [save |-> NoKey, restore |-> NoKey]

InitApiKey ==
    /\ catalog = <<>>
    /\ versions = EmptyVersions
    /\ resolveCalls = <<>>
    /\ deduplicated = NoPlan("none")
    /\ previous = NoPlan("none")
    /\ pc = "keys"
    /\ RunIdle
    /\ keyCalls = <<>>
    /\ env = <<>>
    /\ archiveStore = {}
    /\ archiveCall = <<>>
    /\ cacheEnabled = FALSE
    /\ requestedUrls = <<>>
    /\ cacheRestored = FALSE
    /\ files = <<>>
    /\ store = <<>>
    /\ now = 0
    /\ remote = <<>>
    /\ fetchCalls = <<>>
    /\ persisted = <<>>
    /\ sinceClear = <<>>
    /\ passed = FirstRun
    /\ keyLog = NoKeys
    /\ download = <<>>
    /\ earlier = <<>>

KeyFrame ==
    UNCHANGED <<dedupVars, pc, runVars, keyCalls, archiveVars, files, store, remote,
                fetchCalls, persisted, sinceClear, download, earlier>>

\* configureCaching, 22-25
KeyConfigure(enabled) ==
    /\ pc = "keys"
    /\ cacheEnabled' = enabled
    /\ KeyFrame
    /\ UNCHANGED <<requestedUrls, cacheRestored, now, passed, keyLog>>

\* fetchWithCache, 199-209: the URL is recorded, and the first call since
\* the flag was reset restores with the key of the URLs recorded by then
KeyFetch(url) ==
    /\ pc = "keys"
    /\ Len(passed.urls) < MaxFetches
    /\ requestedUrls' = IF cacheEnabled THEN SetAdd(requestedUrls, url) ELSE requestedUrls
    /\ passed' = IF cacheEnabled THEN [passed EXCEPT !.urls = Append(@, url)] ELSE passed
    /\ cacheRestored' = (cacheEnabled \/ cacheRestored)
    /\ keyLog' = IF cacheEnabled /\ ~cacheRestored /\ ~keyLog.restore.made
                 THEN [keyLog EXCEPT !.restore =
                          KeyEntry(generateApiCacheKey(requestedUrls', now), passed')]
                 ELSE keyLog
    /\ KeyFrame
    /\ UNCHANGED <<cacheEnabled, now>>

\* The end of the first run: persistApiCache, 239-243, with saveApiCache,
\* 159-179, where readdir finds files in the cache directory or none; then
\* the process ends and the next run loads the module (lines 16, 17, 193)
KeyEndRun ==
    /\ pc = "keys"
    /\ passed.run = 1
    /\ \E entries \in BOOLEAN :
          keyLog' = [save |-> IF cacheEnabled /\ cacheRestored /\ entries
                              THEN KeyEntry(generateApiCacheKey(requestedUrls, now), passed)
                              ELSE NoKey,
                     restore |-> NoKey]
    /\ cacheEnabled' = FALSE
    /\ requestedUrls' = <<>>
    /\ cacheRestored' = FALSE
    /\ passed' = [FirstRun EXCEPT !.run = 2]
    /\ KeyFrame
    /\ UNCHANGED now

\* clearApiCache, 255-256
KeyClear ==
    /\ pc = "keys"
    /\ cacheRestored' = FALSE
    /\ requestedUrls' = <<>>
    /\ passed' = [passed EXCEPT !.urls = <<>>, !.cleared = TRUE]
    /\ KeyFrame
    /\ UNCHANGED <<cacheEnabled, now, keyLog>>

KeyTick ==
    /\ pc = "keys"
    /\ now < MaxTime
    /\ now' = now + 1
    /\ KeyFrame
    /\ UNCHANGED <<cacheEnabled, requestedUrls, cacheRestored, passed, keyLog>>

NextApiKey ==
    \/ \E enabled \in BOOLEAN : KeyConfigure(enabled)
    \/ \E url \in KeyUrls : KeyFetch(url)
    \/ KeyEndRun
    \/ KeyClear
    \/ KeyTick

SpecApiKey == InitApiKey /\ [][NextApiKey]_vars

\* ------------------------------------------------- the earlier deduplicator
\* part_010: deduplicateVersions over plain specifier lists.  It calls
\* resolveVersion(v, type) with two arguments: no prerelease flag is passed,
\* which the resolver reads as a flag that is not set.
earlierResolve(list, type) ==
    [i \in 1..Len(list) |->
        [original |-> list[i], resolved |-> resolveVersion(list[i], type, FALSE)]]

\* variant: a runtime entry is not compared with the sdk requests
earlierKeepRuntime_NoSdk(sdkSet, aspnetcoreSet, e) == e.resolved \notin aspnetcoreSet

\* part_010 44-52
earlierKeepRuntime(sdkSet, aspnetcoreSet, e) ==
    ~(e.resolved \in aspnetcoreSet \/ e.resolved \in sdkSet)

\* part_010 55-63
earlierKeepAspnetcore(sdkSet, e) == e.resolved \notin sdkSet

\* part_010 83-102: the original specifier of each first occurrence is pushed
RECURSIVE earlierRemoveDuplicates(_, _, _, _)
earlierRemoveDuplicates(list, i, seen, result) ==
    IF i > Len(list) THEN result
    ELSE IF list[i].resolved \in seen
    THEN earlierRemoveDuplicates(list, i + 1, seen, result)
    ELSE earlierRemoveDuplicates(list, i + 1, seen \cup {list[i].resolved},
                                 Append(result, list[i].original))

\* part_010 14-78
earlierDeduplicateVersions(vs) ==
    LET sdks == earlierResolve(vs.sdk.versions, "sdk")
        runtimes == earlierResolve(vs.runtime.versions, "runtime")
        aspnetcores == earlierResolve(vs.aspnetcore.versions, "aspnetcore")
        sdkSet == ResolvedSet(sdks)
        aspnetcoreSet == ResolvedSet(aspnetcores)
        filteredRuntimes ==
            SelectSeq(runtimes, LAMBDA e : earlierKeepRuntime(sdkSet, aspnetcoreSet, e))
        filteredAspnetcores ==
            SelectSeq(aspnetcores, LAMBDA e : earlierKeepAspnetcore(sdkSet, e))
    IN  IF Threw \in sdkSet \cup ResolvedSet(runtimes) \cup aspnetcoreSet
        THEN NoPlan("threw")
        ELSE [status |-> "ok",
              sdk |-> earlierRemoveDuplicates(sdks, 1, {}, <<>>),
              runtime |-> earlierRemoveDuplicates(filteredRuntimes, 1, {}, <<>>),
              aspnetcore |-> earlierRemoveDuplicates(filteredAspnetcores, 1, {}, <<>>)]

InitVariants ==
    /\ catalog \in Catalogs
    /\ versions = EmptyVersions
    /\ resolveCalls = <<>>
    /\ deduplicated = NoPlan("none")
    /\ previous = NoPlan("none")
    /\ pc = "variants"
    /\ RunIdle
    /\ keyCalls = <<>>
    /\ env = <<>>
    /\ archiveStore = {}
    /\ archiveCall = <<>>
    /\ ApiIdle
    /\ passed = <<>>
    /\ keyLog = {}
    /\ download = <<>>
    /\ earlier = NoPlan("none")

\* both variants are called with the same specifier lists
DeduplicateBoth ==
    /\ pc = "variants"
    /\ \E vs \in Requests :
          /\ versions' = vs
          /\ deduplicated' = deduplicateVersions(vs)
          /\ earlier' = earlierDeduplicateVersions(vs)
    /\ pc' = "compared"
    /\ UNCHANGED <<catalog, resolveCalls, previous, runVars, cacheVars,
                   passed, keyLog, download>>

NextVariants == DeduplicateBoth

SpecVariants == InitVariants /\ [][NextVariants]_vars

\* --------------------------------------------------------------- installer.ts
\* installDotNet of one plan item.  The version is a concrete one, as
\* run() passes the entries of the deduplicated plan.
InstallTypes == {"sdk", "runtime"}

\* installer.ts 54: downloadWithRetry(downloadUrl, 3)
maxRetries == 3

\* what toolCache.downloadTool can raise
DownloadErrors == {"ETIMEDOUT", "Unexpected HTTP response: 404"}

\* attempts: the outcome of each toolCache.downloadTool call, "ok" or the
\* message of its error; waits: the seconds of each setTimeout, in order
NoDownload ==
    [pc |-> "idle", type |-> "", version |-> Null, attempt |-> 0, attempts |-> <<>>,
     lastError |-> "", waits |-> <<>>, downloadPath |-> <<>>, extracted |-> FALSE,
     installed |-> FALSE, result |-> "none", message |-> <<>>]

InitInstall ==
    /\ catalog = <<>>
    /\ versions = EmptyVersions
    /\ resolveCalls = <<>>
    /\ deduplicated = NoPlan("none")
    /\ previous = NoPlan("none")
    /\ pc = "install"
    /\ RunIdle
    /\ keyCalls = <<>>
    /\ env = <<>>
    /\ archiveStore = {}
    /\ archiveCall = <<>>
    /\ ApiIdle
    /\ passed = <<>>
    /\ keyLog = {}
    /\ download \in {[NoDownload EXCEPT !.type = t, !.version = v] :
                        t \in InstallTypes, v \in Version}
    /\ earlier = <<>>

InstallFrame ==
    UNCHANGED <<dedupVars, pc, runVars, cacheVars, passed, keyLog, earlier>>

\* installDotNet raises: the promise rejects with this message
InstallThrows(d, message) ==
    [d EXCEPT !.pc = "done", !.result = "threw", !.message = message]

\* variant: every wait is five seconds
waitTime_Constant(attempt) == 5

\* installer.ts 121
waitTime(attempt) == attempt * 5

\* installer.ts 40-54 and 115: resolveVersion returns the concrete version
\* it is given, and the loop of downloadWithRetry begins
InstallDotNet ==
    /\ pc = "install"
    /\ download.pc = "idle"
    /\ download' = [download EXCEPT !.pc = "attempt", !.attempt = 1]
    /\ InstallFrame

\* installer.ts 115-120 and 126-128, with the catch of 55-60: downloadTool
\* returns a path, which ends the loop, or raises; after the last attempt the
\* loop ends and lastError is thrown
DownloadAttempt ==
    /\ pc = "install"
    /\ download.pc = "attempt"
    /\ download.attempt <= maxRetries
    /\ \E outcome \in {"ok"} \cup DownloadErrors :
          LET d == [download EXCEPT !.attempts = Append(@, outcome)]
          IN  download' =
                 IF outcome = "ok"
                 THEN [d EXCEPT !.pc = "extract",
                                !.downloadPath = <<"download", d.attempt>>]
                 ELSE IF d.attempt < maxRetries
                 THEN [d EXCEPT !.pc = "wait", !.lastError = outcome]
                 ELSE InstallThrows([d EXCEPT !.lastError = outcome],
                         <<"Failed to download .NET", d.type, d.version, outcome>>)
    /\ InstallFrame

\* installer.ts 121-123 and the attempt++ of 115: the timer fires
DownloadWait ==
    /\ pc = "install"
    /\ download.pc = "wait"
    /\ download' = [download EXCEPT !.waits = Append(@, waitTime(download.attempt)),
                                    !.attempt = @ + 1,
                                    !.pc = "attempt"]
    /\ InstallFrame

\* installer.ts 62-64: extractArchive returns or raises
ExtractArchive ==
    /\ pc = "install"
    /\ download.pc = "extract"
    /\ \E ok \in BOOLEAN :
          download' = IF ok THEN [download EXCEPT !.pc = "copy", !.extracted = TRUE]
                      ELSE InstallThrows(download, <<"extraction failed">>)
    /\ InstallFrame

\* installer.ts 66-86: the files are copied to the install directory
CopyToInstallDir ==
    /\ pc = "install"
    /\ download.pc = "copy"
    /\ \E ok \in BOOLEAN :
          download' = IF ok
                      THEN [download EXCEPT !.pc = "done", !.installed = TRUE,
                                            !.result = "returned"]
                      ELSE InstallThrows(download, <<"copy failed">>)
    /\ InstallFrame

NextInstall ==
    \/ InstallDotNet
    \/ DownloadAttempt
    \/ DownloadWait
    \/ ExtractArchive
    \/ CopyToInstallDir

\* every await of installDotNet settles: downloadTool answers, the timer
\* fires, the archive tools end
SpecInstall == InitInstall /\ [][NextInstall]_vars /\ WF_vars(NextInstall)

\* ============================================================== properties
Returned == pc = "returned" /\ deduplicated.status = "ok"

\* the resolved versions requested for one type
Requested(type) ==
    {resolveVersion(versions[type].versions[i], type, versions[type].allowPrerelease)
        : i \in 1..Len(versions[type].versions)}

\* the sequence of resolved versions requested for one type, in request order
ResolvedRequest(t) ==
    [i \in 1..Len(versions[t].versions) |->
        resolveVersion(versions[t].versions[i], t, versions[t].allowPrerelease)]

\* every version getSdkIncludedVersions reports for a resolved SDK of the request
IncludedBySdk ==
    UNION {LET included == getSdkIncludedVersions(sdk)
           IN  {included.runtime, included.aspnetcore}
            : sdk \in Requested("sdk")} \ {Null}

NoDuplicates(list) == \A i, j \in 1..Len(list) : list[i] = list[j] => i = j

FirstIndex(list, v) == CHOOSE i \in 1..Len(list) :
    list[i] = v /\ \A j \in 1..(i - 1) : list[j] # v

\* C1: no version of the runtime or aspnetcore output list equals a version of
\* the sdk output list or a runtime/aspnetcore version that
\* getSdkIncludedVersions reports for a resolved SDK of the request.
C1_HierarchyInvariant ==
    Returned =>
        (Range(deduplicated.runtime) \cup Range(deduplicated.aspnetcore))
            \cap (Range(deduplicated.sdk) \cup IncludedBySdk) = {}

\* C2: the sdk output list holds exactly the distinct resolved versions of the
\* requested SDK specifiers, whatever is requested for the other two types.
C2_SdkNeverDropped ==
    Returned =>
        /\ Range(deduplicated.sdk) = Requested("sdk")
        /\ NoDuplicates(deduplicated.sdk)

C2_Witness ==
    /\ Returned
    /\ deduplicated.sdk # <<>>
    /\ Range(deduplicated.sdk) \subseteq Requested("runtime") \cup Requested("aspnetcore")
    /\ Range(deduplicated.sdk) \cap IncludedBySdk # {}

\* C3: a version requested both as runtime and as aspnetcore that no requested
\* SDK equals or includes is absent from the runtime output and present in the
\* aspnetcore output.
C3_AspnetcoreOverRuntime ==
    Returned =>
        LET both == Requested("runtime") \cap Requested("aspnetcore")
            uncovered == both \ (Requested("sdk") \cup IncludedBySdk)
        IN  \A v \in uncovered :
                /\ v \notin Range(deduplicated.runtime)
                /\ v \in Range(deduplicated.aspnetcore)

\* two different wildcard/keyword specifiers resolving to the same version
C3_Witness ==
    /\ Returned
    /\ versions.runtime.versions = <<Wildcard>>
    /\ versions.aspnetcore.versions = <<Latest>>
    /\ Requested("sdk") # {}
    /\ \E v \in Requested("runtime") \cap Requested("aspnetcore") :
          /\ v \notin Requested("sdk") \cup IncludedBySdk
          /\ deduplicated.runtime = <<>>
          /\ deduplicated.aspnetcore = <<v>>

\* C4: a requested runtime version is missing from the runtime output only if
\* it is a resolved SDK version, a resolved aspnetcore version or an
\* SDK-included version; a requested aspnetcore version is missing from the
\* aspnetcore output only if it is a resolved SDK version or an SDK-included
\* version.  Every other requested version is in the output of its type.
C4_DropsOnlyCovered ==
    Returned =>
        LET bySdk == Requested("sdk") \cup IncludedBySdk
        IN  /\ Requested("runtime") \ Range(deduplicated.runtime)
                  \subseteq bySdk \cup Requested("aspnetcore")
            /\ Requested("aspnetcore") \ Range(deduplicated.aspnetcore)
                  \subseteq bySdk

\* a runtime request equal to a kept aspnetcore entry, next to a kept runtime
C4_Witness ==
    /\ Returned
    /\ Requested("runtime") \cap Range(deduplicated.aspnetcore) # {}
    /\ deduplicated.runtime # <<>>

\* C5: no output list holds a version twice, and the entries of an output list
\* stand in the order in which their versions first occur in the request.
C5_FirstOccurrenceKept ==
    Returned =>
        \A t \in DotnetType :
            LET out == deduplicated[t]
                req == ResolvedRequest(t)
            IN  /\ NoDuplicates(out)
                /\ Range(out) \subseteq Range(req)
                /\ \A i \in 1..(Len(out) - 1) :
                      FirstIndex(req, out[i]) < FirstIndex(req, out[i + 1])

\* a, b, a requested for one type: a is kept in front of b
C5_Witness ==
    /\ Returned
    /\ \E t \in DotnetType :
          /\ Len(versions[t].versions) = 3
          /\ Len(deduplicated[t]) = 2
          /\ resolveVersion(versions[t].versions[1], t, versions[t].allowPrerelease)
               = resolveVersion(versions[t].versions[3], t, versions[t].allowPrerelease)
          /\ versions[t].versions[1] # versions[t].versions[3]

RECURSIVE IsSubsequence(_, _)
IsSubsequence(a, b) ==
    IF a = <<>> THEN TRUE
    ELSE IF b = <<>> THEN FALSE
    ELSE IF Head(a) = Head(b) THEN IsSubsequence(Tail(a), Tail(b))
    ELSE IsSubsequence(a, Tail(b))

\* C6: each output list is a subsequence of the sequence of resolved versions
\* requested for its type.
C6_OrderPreserved ==
    Returned => \A t \in DotnetType : IsSubsequence(deduplicated[t], ResolvedRequest(t))

\* two survivors of three runtime requests, different versions, one entry gone
C6_Witness ==
    /\ Returned
    /\ Len(versions.runtime.versions) = 3
    /\ Len(deduplicated.runtime) = 2
    /\ deduplicated.runtime[1] = ResolvedRequest("runtime")[1]
    /\ deduplicated.runtime[2] = ResolvedRequest("runtime")[3]

\* C7: deduplicateVersions applied to its own output, passed back as exact
\* specifiers with the same catalog and flags, returns that output.
C7_Idempotent ==
    (previous.status = "ok" /\ pc \in {"returned", "threw"}) => deduplicated = previous

C7_Witness ==
    /\ pc = "returned"
    /\ previous.status = "ok"
    /\ \E t \in DotnetType : Len(previous[t]) = 2
    /\ catalog # <<>>

C9_FailFast ==
    (deduplicated.status # "none" /\ ResolveThrows(Locals(versions))) =>
        /\ deduplicated = NoPlan("threw")
        /\ pc = "failed"
        /\ failed = ResolveErrorMessage
        /\ tasks = <<>>
        /\ ~outputs.set

\* one specifier fails while another one of the request resolves
C9_Witness ==
    /\ pc = "failed"
    /\ failed = ResolveErrorMessage
    /\ \E i, j \in 1..Len(AllCalls(versions)) :
          CallThrows(AllCalls(versions)[i]) /\ ~CallThrows(AllCalls(versions)[j])

\* C10: every resolveVersion call is made with a requested specifier, the type
\* it is requested for and that type's allowPrerelease flag, and a call that
\* returns has resolved every requested specifier in this way.
C10_OwnTypeAndFlag ==
    /\ \A k \in 1..Len(resolveCalls) :
          LET call == resolveCalls[k]
          IN  /\ call[1] \in Range(versions[call[2]].versions)
              /\ call[3] = versions[call[2]].allowPrerelease
    /\ Returned =>
          \A t \in DotnetType : \A s \in Range(versions[t].versions) :
              <<s, t, versions[t].allowPrerelease>> \in Range(resolveCalls)

\* 'latest' requested as sdk and as runtime with different flags resolves to
\* different versions, and the sdk flag would not resolve the runtime request
C10_Witness ==
    /\ Returned
    /\ versions.sdk.versions = <<Latest>>
    /\ versions.runtime.versions = <<Latest>>
    /\ versions.sdk.allowPrerelease # versions.runtime.allowPrerelease
    /\ {<<Latest, "sdk", versions.sdk.allowPrerelease>>,
        <<Latest, "runtime", versions.runtime.allowPrerelease>>}
            \subseteq Range(resolveCalls)
    /\ Requested("sdk") # Requested("runtime")
    /\ resolveVersion(Latest, "runtime", versions.sdk.allowPrerelease)
         # resolveVersion(Latest, "runtime", versions.runtime.allowPrerelease)

\* the resolved SDKs of the request for which getSdkIncludedVersions returns
\* {runtime: null, aspnetcore: null}
UnknownSdks ==
    {sdk \in Requested("sdk") :
        getSdkIncludedVersions(sdk) = [runtime |-> Null, aspnetcore |-> Null]}

\* C11: an SDK for which getSdkIncludedVersions returns null for both versions
\* does not make the call fail and adds nothing to the SDK-included set; when
\* this is so for every resolved SDK, runtime entries are dropped only for
\* equality with a resolved sdk or aspnetcore version and aspnetcore entries
\* only for equality with a resolved sdk version.
C11_NullIncludedIgnored ==
    /\ pc = "threw" => Threw \in UNION {Requested(t) : t \in DotnetType}
    /\ Returned =>
          LET sdks == Requested("sdk")
              known == sdks \ UnknownSdks
          IN  /\ sdkIncludedRuntimes(resolvedSdk(versions))
                    = {getSdkIncludedVersions(sdk).runtime : sdk \in known} \ {Null}
              /\ known = {} =>
                    LET aspnetcores == Requested("aspnetcore")
                    IN  /\ Range(deduplicated.runtime)
                              = Requested("runtime") \ (sdks \cup aspnetcores)
                        /\ Range(deduplicated.aspnetcore) = aspnetcores \ sdks

\* the manifest lists the requested runtime for another SDK, the requested SDK
\* is in no release, and the runtime request stays
C11_Witness ==
    /\ Returned
    /\ catalog # <<>>
    /\ Requested("sdk") # {}
    /\ UnknownSdks = Requested("sdk")
    /\ Requested("runtime") \cap Available("runtime") # {}
    /\ Range(deduplicated.runtime) = Requested("runtime")

\* the (type, version) entries of a generateCacheKey argument, with multiplicity
EntryBag(v) ==
    [e \in DotnetType \X Version |->
        Cardinality({i \in 1..Len(v[e[1]]) : v[e[1]][i] = e[2]})]

SameHost(a, b) == a.platform = b.platform /\ a.arch = b.arch

\* C12: two generateCacheKey calls on one host whose sdk, runtime and
\* aspnetcore lists are permutations of each other return the same key.
C12_KeyPermutationInvariant ==
    Len(keyCalls) = 2 =>
        ((SameHost(keyCalls[1], keyCalls[2])
          /\ EntryBag(keyCalls[1].versions) = EntryBag(keyCalls[2].versions))
            => keyCalls[1].key = keyCalls[2].key)

\* two calls whose lists hold the same versions in a different order
C12_Witness ==
    /\ Len(keyCalls) = 2
    /\ SameHost(keyCalls[1], keyCalls[2])
    /\ keyCalls[1].versions # keyCalls[2].versions
    /\ EntryBag(keyCalls[1].versions) = EntryBag(keyCalls[2].versions)
    /\ keyCalls[1].key = keyCalls[2].key

\* C13: two generateCacheKey calls that differ in a (type, version) entry, in
\* the platform or in the architecture return different keys.
C13_KeyDistinguishes ==
    Len(keyCalls) = 2 =>
        ((~SameHost(keyCalls[1], keyCalls[2])
          \/ EntryBag(keyCalls[1].versions) # EntryBag(keyCalls[2].versions))
            => keyCalls[1].key # keyCalls[2].key)

\* the same version listed under another type gives another key
C13_Witness ==
    /\ Len(keyCalls) = 2
    /\ SameHost(keyCalls[1], keyCalls[2])
    /\ Len(keyCalls[1].versions.sdk) = 1
    /\ keyCalls[2].versions.sdk = <<>>
    /\ keyCalls[2].versions.runtime = keyCalls[1].versions.sdk
    /\ keyCalls[1].versions.runtime = <<>>
    /\ keyCalls[1].versions.aspnetcore = keyCalls[2].versions.aspnetcore
    /\ keyCalls[1].key # keyCalls[2].key

\* C18: restoreCache, saveCache and cacheExists never raise to their caller,
\* whatever the store answers and whether or not AGENT_TOOLSDIRECTORY or
\* RUNNER_TOOL_CACHE is set; restoreCache and cacheExists then return false.
C18_ArchiveNeverRaises ==
    /\ archiveCall.outcome # "raised"
    /\ (archiveCall.op \in {"restoreCache", "cacheExists"} /\ archiveCall.warned)
          => ~archiveCall.value

\* a step that completes the fetchWithCache call of caller c
Completes(c) == fetchCalls[c].pc # "idle" /\ fetchCalls'[c].pc = "idle"

\* C14: with caching enabled, a call that finds the entry of an earlier
\* fetch younger than 12 hours returns the data of that entry and issues no
\* network request; a call that finds it 12 hours old or older fetches, and
\* the entry it writes holds the document fetched and the time of the call.
C14_FreshnessWindow ==
    [][\A c \in Callers :
         (Completes(c) /\ cacheEnabled /\ fetchCalls'[c].content.kind = "entry") =>
            LET call == fetchCalls'[c]
                entry == call.content
            IN  IF now - entry.timestamp < CACHE_DURATION_MS
                THEN /\ call.result = "returned"
                     /\ call.value = entry.data
                     /\ ~call.fetched
                ELSE /\ call.fetched
                     /\ call.saved = "ok" =>
                           files'[call.url] = CachedResponse(remote[call.url], now)]_vars

\* the calls that have completed
Completed == {c \in Callers : fetchCalls[c].pc = "idle" /\ fetchCalls[c].result # "none"}

\* C15: a call whose read of the cache file delivered content that is not
\* JSON (or no content) or a document without timestamp issues a network
\* request, returns the document of an ok response, and raises only when
\* the request itself fails.
C15_MalformedIsMiss ==
    \A c \in Completed :
       LET call == fetchCalls[c]
       IN  call.content.kind \in {"invalid", "noTimestamp"} =>
              /\ call.fetched
              /\ call.response = "ok" => (call.result = "returned" /\ call.value = call.data)
              /\ call.result = "threw" => call.response \in {"notOk", "rejected"}

C15_Witness ==
    /\ 1 \in Completed
    /\ fetchCalls[1].content.kind = "invalid"
    /\ fetchCalls[1].result = "returned"
    /\ fetchCalls[1].value = "data2"
    /\ fetchCalls[1].fetched

\* C16: while caching is disabled, no step of a fetchWithCache call changes
\* the local cache files, the recorded URLs, the restored flag or the
\* durable store, and the call has issued a network request when it
\* completes, also when a fresh entry of its URL is on disk.
C16_DisabledTouchesNothing ==
    [][\A c \in Callers :
         (~cacheEnabled /\ fetchCalls'[c] # fetchCalls[c]) =>
            /\ UNCHANGED <<files, requestedUrls, cacheRestored, store>>
            /\ Completes(c) => fetchCalls'[c].fetched]_vars

C16_Witness ==
    /\ ~cacheEnabled
    /\ 1 \in Completed
    /\ fetchCalls[1].fetched
    /\ fetchCalls[1].result = "returned"
    /\ LET entry == files[fetchCalls[1].url]
       IN  /\ entry.kind = "entry"
           /\ now - entry.timestamp < CACHE_DURATION_MS
           /\ entry.data \notin {JsonNull, fetchCalls[1].value}
    /\ cacheRestored
    /\ requestedUrls # <<>>
    /\ store.saved

\* C17: whatever cache.restoreCache answered (hit, miss, error) and whether
\* or not mkdir and writeFile succeeded, a call whose request got an ok
\* response returns the document fetched; and whatever cache.saveCache
\* answered (saved, ReserveCacheError, another error), persistApiCache
\* returns.
C17_StoreFailuresNotFatal ==
    /\ \A c \in Completed :
          LET call == fetchCalls[c]
          IN  call.response = "ok" => (call.result = "returned" /\ call.value = call.data)
    /\ persisted.outcome \in {"none", "returned"}

C17_Witness ==
    /\ 1 \in Completed
    /\ fetchCalls[1].restore = "error"
    /\ fetchCalls[1].saved = "failed"
    /\ fetchCalls[1].response = "ok"
    /\ fetchCalls[1].result = "returned"
    /\ persisted.answer = "error"
    /\ persisted.outcome = "returned"

\* C19: a call whose request got a response that is not ok raises 'API
\* request failed', has written nothing to the cache file of its URL, and
\* leaves that file such that the next read of it is a miss, so that the
\* next call for the URL issues a request again.
C19_FailedResponseNotCached ==
    [][\A c \in Callers :
         (Completes(c) /\ fetchCalls'[c].response = "notOk") =>
            LET call == fetchCalls'[c]
            IN  /\ call.result = "threw"
                /\ call.message = "API request failed"
                /\ call.saved = "none"
                /\ files' = files
                /\ getCachedResponse(IF cacheEnabled THEN files'[call.url] ELSE NotRead,
                                     now) = JsonNull]_vars

C19_Witness ==
    /\ cacheEnabled
    /\ 1 \in Completed
    /\ fetchCalls[1].response = "notOk"
    /\ fetchCalls[1].result = "threw"
    /\ fetchCalls[1].content.kind = "entry"
    /\ files[fetchCalls[1].url] = fetchCalls[1].content

\* C20: with caching enabled and the document of the server fixed, in every
\* interleaving of the calls of two callers a call that returns returns
\* that document, a call raises only when its own request fails, and when a
\* call for a URL completes after the other caller's call for the same URL,
\* its writes not having failed, the cache file of the URL holds an entry
\* with that document.
C20_ConcurrentFetchHarmless ==
    [][\A c \in Callers :
         (Completes(c) /\ cacheEnabled) =>
            LET call == fetchCalls'[c]
            IN  /\ call.result = "returned" => call.value = remote[call.url]
                /\ call.result = "threw" => call.response \in {"notOk", "rejected"}
                /\ \A o \in Completed \ {c} :
                      (fetchCalls[o].url = call.url /\ call.result = "returned"
                         /\ call.saved # "failed") =>
                         /\ files'[call.url].kind = "entry"
                         /\ files'[call.url].data = remote[call.url]]_vars

C20_Witness ==
    /\ cacheEnabled
    /\ Completed = Callers
    /\ fetchCalls[1].url = fetchCalls[2].url
    /\ fetchCalls[2].concurrent
    /\ \A c \in Callers :
          /\ fetchCalls[c].content.kind \in {"absent", "invalid"}
          /\ fetchCalls[c].fetched
          /\ fetchCalls[c].saved = "ok"
          /\ fetchCalls[c].result = "returned"
          /\ fetchCalls[c].value = remote[fetchCalls[c].url]
    /\ files[fetchCalls[1].url].kind = "entry"

\* --------------------------------------------------------------- run(), more
\* no specifier in the inputs and no SDK from global.json
NothingRequested ==
    /\ inputs.sdkInput = <<>>
    /\ ~inputs.globalJson.found
    /\ inputs.runtimeInput = <<>>
    /\ inputs.aspnetcoreInput = <<>>

\* C21: run() fails with 'At least one of sdk-version, runtime-version, or
\* aspnetcore-version must be specified' exactly when the inputs and
\* global.json request no version, and it does so before the release
\* information is fetched, before any resolveVersion call of the
\* deduplication and before any installation task.
C21_NothingRequestedFails ==
    /\ (NothingRequested /\ pc \notin {"start", "globalJson", "ensure"}) =>
          /\ pc = "failed"
          /\ failed = NoVersionMessage
          /\ resolveCalls = <<>>
          /\ deduplicated = NoPlan("none")
          /\ installed = {}
          /\ tasks = <<>>
          /\ ~outputs.set
    /\ failed = NoVersionMessage => NothingRequested

\* global.json was looked for and not found, and run() has failed
C21_Witness ==
    /\ NothingRequested
    /\ pc = "failed"
    /\ failed = NoVersionMessage

\* ------------------------------------------------------ the durable cache key
Window(t) == t \div CACHE_DURATION_MS

\* C22: the key with which a run restores the durable API cache at its first
\* fetchWithCache call is the key under which an earlier run that requested
\* the same set of URLs in the same 12-hour window saved the cache at its
\* end, whatever the number of URLs.
C22_RestoreKeyIsSaveKey ==
    LET saved == keyLog.save
        restored == keyLog.restore
    IN  (/\ passed.run = 2
         /\ saved.made /\ ~saved.cleared
         /\ restored.made /\ ~passed.cleared
         /\ Range(passed.urls) = Range(saved.order)
         /\ Window(restored.time) = Window(saved.time)) =>
            restored.key = saved.key

\* C24: the durable cache key is determined by the set of URLs given to
\* fetchWithCache while caching was enabled since the last clear and by
\* floor(now / 12 hours): a key computed earlier equals the key of the present
\* state when both are the same, whatever the order and repetition of the
\* calls, differs from it when only the window differs, and the key is
\* 'dotnet-api-cache-v1-empty' when no URL has been recorded.
C24_KeyOfUrlSetAndWindow ==
    LET current == generateApiCacheKey(requestedUrls, now)
        given == Range(passed.urls)
    IN  /\ given = {} => current.name = "dotnet-api-cache-v1-empty"
        /\ given # {} => current.name # "dotnet-api-cache-v1-empty"
        /\ \A e \in {keyLog.save, keyLog.restore} :
              (e.made /\ Range(e.order) = given) =>
                 /\ Window(e.time) = Window(now) => e.key = current
                 /\ (given # {} /\ Window(e.time) # Window(now)) => e.key # current

\* the second run has asked for the two URLs of the first in another order
\* and one of them twice, within the window of the first run's save
C24_Witness ==
    /\ passed.run = 2
    /\ keyLog.save.made
    /\ Cardinality(Range(keyLog.save.order)) = 2
    /\ Range(passed.urls) = Range(keyLog.save.order)
    /\ Head(passed.urls) # Head(keyLog.save.order)
    /\ Len(passed.urls) = 3
    /\ Window(keyLog.save.time) = Window(now)
    /\ generateApiCacheKey(requestedUrls, now) = keyLog.save.key

\* ------------------------------------------------------------ api-cache, more
Restoring == {c \in Callers : fetchCalls[c].pc = "restore"}

\* C23: with caching enabled, the durable store is asked to restore at most
\* once between two clearApiCache calls, and when a fetchWithCache call is
\* about to read the local cache the restore has been made and no restore is
\* under way, in every interleaving of concurrent calls.
C23_RestoredOnceBeforeReads ==
    /\ sinceClear.restores <= 1
    /\ \A c \in Callers :
          (cacheEnabled /\ fetchCalls[c].pc = "read") =>
             cacheRestored /\ Restoring = {}

\* what a persistApiCache call needs to go to the durable store: caching is
\* enabled, a fetchWithCache call recorded its URL and restored since the
\* last clear, and the cache directory holds a file
MayPersist ==
    /\ cacheEnabled
    /\ requestedUrls # <<>>
    /\ cacheRestored
    /\ \E u \in Urls : files[u].kind # "absent"

\* C25: a persistApiCache call contacts the durable store only when caching
\* is enabled, a fetchWithCache call has been made with caching enabled since
\* the last clearApiCache, so that the restore was attempted, and the cache
\* directory holds a file; in every other state the call contacts and changes
\* nothing in the store.
C25_PersistOnlyWhenUsed ==
    [][(persisted' # persisted \/ store' # store) =>
          /\ persisted'.contacted => MayPersist
          /\ ~MayPersist => store' = store]_vars

\* a call that saved, and then a call that did not go to the store because
\* clearApiCache had run
C25_Witness ==
    /\ store.saved
    /\ store.key.urls # <<>>
    /\ persisted.outcome = "returned"
    /\ ~persisted.contacted
    /\ cacheEnabled
    /\ ~cacheRestored
    /\ requestedUrls = <<>>
    /\ sinceClear.clear.cached # {}

\* a step of clearApiCache: no call moves and the module state changes
ClearStep ==
    /\ UNCHANGED fetchCalls
    /\ <<files, requestedUrls, cacheRestored, sinceClear>>'
          # <<files, requestedUrls, cacheRestored, sinceClear>>

\* the call of caller c that ends with this step asked for a URL that had a
\* cache entry when clearApiCache ran, and is the first call to end since
AfterClear(c) ==
    /\ Completes(c)
    /\ fetchCalls[c].url \in sinceClear.clear.cached

Failures == {i \in 1..Len(download.attempts) : download.attempts[i] # "ok"}

\* C27: downloadWithRetry makes at most maxRetries download attempts, makes
\* none after one that succeeded and hands its path on, waits attempt * 5
\* seconds after a failed attempt that is not the last, and after maxRetries
\* failures raises the error of the last attempt, which installDotNet reports
\* as 'Failed to download .NET <type> <version>: <message>' with nothing
\* extracted or installed; the call always ends.
C27_BoundedRetry ==
    /\ [](LET d == download
              n == Len(d.attempts)
          IN  /\ n <= maxRetries
              /\ \A i \in 1..(n - 1) : d.attempts[i] # "ok"
              /\ d.waits = [i \in 1..Len(d.waits) |-> i * 5]
              /\ Len(d.waits) = IF d.pc = "attempt" THEN n
                                ELSE IF n = 0 THEN 0
                                ELSE IF d.pc = "wait" THEN n - 1
                                ELSE Cardinality(Failures \ {maxRetries})
              /\ (n > 0 /\ d.attempts[n] = "ok") =>
                    d.downloadPath = <<"download", n>>
              /\ (d.extracted \/ d.installed) => (n > 0 /\ d.attempts[n] = "ok")
              /\ (d.pc = "done" /\ Failures = 1..maxRetries) =>
                    /\ d.result = "threw"
                    /\ d.message = <<"Failed to download .NET", d.type, d.version,
                                     d.attempts[maxRetries]>>
                    /\ ~d.extracted /\ ~d.installed)
    /\ <>(download.pc = "done")

\* three failures with different errors, waits of 5 and 10 seconds between
C27_Witness ==
    /\ download.pc = "done"
    /\ download.attempts = <<"ETIMEDOUT", "ETIMEDOUT", "Unexpected HTTP response: 404">>
    /\ download.waits = <<5, 10>>
    /\ download.result = "threw"
    /\ download.message[4] = "Unexpected HTTP response: 404"

\* ------------------------------------------------------------ run(): the plan
\* the tasks of the entries of one type, which begin after `before` tasks
TasksOf(type, before) ==
    \A i \in 1..Len(deduplicated[type]) :
        tasks[before + i] = [version |-> deduplicated[type][i], type |-> type]

\* isVersionInstalled holds of every entry of the deduplicated plan
EveryVersionInstalled ==
    /\ deduplicated.status = "ok"
    /\ pc \notin {"deduplicate", "check"}
    /\ \A type \in DotnetType : \A i \in 1..Len(deduplicated[type]) :
          [version |-> deduplicated[type][i], type |-> type] \in installed

C28_WitnessInstalled ==
    /\ EveryVersionInstalled
    /\ installed # {}

\* ---------------------------------------------------------- run(): the flags
\* C29: readGlobalJson is awaited only when the sdk-version input is empty;
\* the requested SDK specifiers are the input with the allow-preview flag
\* when the input is given, the global.json version with its allowPrerelease
\* value when it is not and global.json is found; runtime and aspnetcore
\* specifiers are the inputs with the allow-preview flag, and these flags are
\* the ones every resolveVersion call of the run is given.
C29_SdkInputPrecedes ==
    /\ pc = "globalJson" => inputs.sdkInput = <<>>
    /\ pc \notin {"start", "globalJson"} =>
          /\ inputs.sdkInput # <<>> =>
                versions.sdk = [versions |-> inputs.sdkInput,
                                allowPrerelease |-> inputs.allowPreview]
          /\ (inputs.sdkInput = <<>> /\ inputs.globalJson.found) =>
                versions.sdk = [versions |-> <<inputs.globalJson.version>>,
                                allowPrerelease |-> inputs.globalJson.allowPrerelease]
          /\ versions.runtime = [versions |-> inputs.runtimeInput,
                                 allowPrerelease |-> inputs.allowPreview]
          /\ versions.aspnetcore = [versions |-> inputs.aspnetcoreInput,
                                    allowPrerelease |-> inputs.allowPreview]
          /\ \A i \in 1..Len(resolveCalls) :
                resolveCalls[i][3] =
                    IF resolveCalls[i][2] = "sdk" /\ inputs.sdkInput = <<>>
                    THEN inputs.globalJson.allowPrerelease
                    ELSE inputs.allowPreview

\* the SDK of global.json was resolved with a flag that differs from
\* allow-preview
C29_Witness ==
    /\ inputs.sdkInput = <<>>
    /\ inputs.globalJson.found
    /\ inputs.globalJson.allowPrerelease # inputs.allowPreview
    /\ \E i \in 1..Len(resolveCalls) :
          /\ resolveCalls[i][2] = "sdk"
          /\ resolveCalls[i][3] = inputs.globalJson.allowPrerelease

\* an sdk-version input with a global.json that is never read
C29_WitnessInput ==
    /\ inputs.sdkInput # <<>>
    /\ inputs.globalJson.found
    /\ inputs.globalJson.allowPrerelease # inputs.allowPreview
    /\ resolveCalls # <<>>

\* ------------------------------------------------- the two deduplicators
\* getSdkIncludedVersions answers null for both fields for every requested SDK
NoSdkIncluded ==
    \A e \in Range(resolvedSdk(versions)) :
        getSdkIncludedVersions(e.resolved) = [runtime |-> Null, aspnetcore |-> Null]

\* the entries of a list at the positions of a set, in order
AtPositions(list, positions) ==
    LET at == SelectSeq([i \in 1..Len(list) |-> i], LAMBDA i : i \in positions)
    IN  [k \in 1..Len(at) |-> list[at[k]]]

\* the two plans are those of one set of surviving positions of each request
\* list: the earlier plan holds their specifiers, the later their versions;
\* or both calls raise
SamePositions ==
    /\ earlier.status = deduplicated.status
    /\ deduplicated.status = "ok" =>
          \A type \in DotnetType :
              \E positions \in SUBSET (1..Len(versions[type].versions)) :
                  /\ earlier[type] = AtPositions(versions[type].versions, positions)
                  /\ deduplicated[type] =
                        AtPositions([i \in 1..Len(versions[type].versions) |->
                                        resolveVersion(versions[type].versions[i], type,
                                                       versions[type].allowPrerelease)],
                                    positions)

\* the resolveVersion call of the earlier variant gives every specifier of the
\* request the version the later variant resolves it to
SameResolution ==
    \A type \in DotnetType : \A i \in 1..Len(versions[type].versions) :
        resolveVersion(versions[type].versions[i], type, FALSE) =
            resolveVersion(versions[type].versions[i], type, versions[type].allowPrerelease)

====
